---------------------------- MODULE Spec2Model ----------------------------
(***************************************************************************)
(* Model of src/src/analyze.py: theme intensity / trend, holdings history, *)
(* holding-change detection, the six-factor candidate scorer               *)
(* (estimate_candidates) and the rolling backtest (run_backtest).          *)
(*                                                                         *)
(* Conventions                                                             *)
(*  - A Python str is a sequence of small naturals (code points), so that  *)
(*    the substring test `kw in s` and the lexical order of sorted() are   *)
(*    computed, not assumed.                                               *)
(*  - Python list indices are 0-based; sequences here are 1-based, so      *)
(*    reports[i] of the code is reports[i + 1] here.  cutoff_idx keeps the *)
(*    code's 0-based value.                                                *)
(*  - Floats are exact fixed-point integers.  Theme scores are in          *)
(*    hundredths of a percent-point (round(x, 2)), factor scores and       *)
(*    total_score in thousandths (round(x, 3)), the unrounded weighted sum *)
(*    in millionths.                                                       *)
(*  - Binary floating point does not hold the decimal values exactly: the  *)
(*    float of a value that is exactly a rounding tie, or exactly a        *)
(*    threshold, lies just below it or not, depending on the error of the  *)
(*    operations that produced it.  float_low is that direction; both are  *)
(*    explored.  Away from ties and thresholds the error is too small to   *)
(*    matter.                                                              *)
(***************************************************************************)
EXTENDS Integers, Sequences, FiniteSets, TLC

VARIABLES
    config,            \* the imported configuration (config.py)
    float_low,         \* the float of an inexact result lies below its exact value
    reports,           \* the corpus handed to the core functions
    pc,                \* position of the driver: load / analyzed / estimated / bt_loop / bt_done
    cutoff_idx,        \* estimate_candidates' cutoff_idx, run_backtest's loop variable
    theme_trends,      \* argument of estimate_candidates
    holdings_analysis, \* argument of estimate_candidates
    candidates,        \* list returned by estimate_candidates
    backtest_results,  \* run_backtest's backtest_results list
    backtest,          \* dict returned by run_backtest
    trend_window,      \* compute_theme_trend's window argument
    intensity_list,    \* list returned by compute_theme_intensity
    changes_list       \* list returned by detect_holding_changes

vars == <<config, float_low, reports, pc, cutoff_idx, theme_trends, holdings_analysis,
          candidates, backtest_results, backtest, trend_window, intensity_list,
          changes_list>>

---------------------------------------------------------------------------
(* Bounds of the exploration *)

\* longest corpus explored
MaxReports == 4

---------------------------------------------------------------------------
(* Python built-ins *)

Min(a, b) == IF a <= b THEN a ELSE b

Max(a, b) == IF a >= b THEN a ELSE b

Abs(a) == IF a < 0 THEN -a ELSE a

\* index set of a sequence
Idx(s) == 1..Len(s)

\* elements of a sequence
Range(s) == {s[i] : i \in Idx(s)}

\* round(n / d) to the nearest integer (d > 0); an exact tie goes the way the
\* float of n / d fell
RoundDiv(n, d) ==
    LET q == n \div d
        r == n % d
    IN  IF 2 * r < d THEN q
        ELSE IF 2 * r > d THEN q + 1
        ELSE IF float_low THEN q ELSE q + 1

\* x >= t, and x > t, on the float of a computed x whose exact value is a / b,
\* against the threshold t / u (b, u > 0)
FloatAtLeast(a, b, t, u) == a * u > t * b \/ (a * u = t * b /\ ~float_low)

\* x <= t, and x < t, likewise
FloatAtMost(a, b, t, u) == a * u < t * b \/ (a * u = t * b /\ float_low)

\* `kw in s` for two str: kw occurs as a contiguous substring of s
Contains(kw, s) ==
    \E i \in 0..(Len(s) - Len(kw)) :
        \A j \in 1..Len(kw) : s[i + j] = kw[j]

\* a < b for two str (code-point lexical order)
RECURSIVE LexLess(_, _)
LexLess(a, b) ==
    IF Len(b) = 0 THEN FALSE
    ELSE IF Len(a) = 0 THEN TRUE
    ELSE IF a[1] # b[1] THEN a[1] < b[1]
    ELSE LexLess(Tail(a), Tail(b))

\* sorted(S) for a set of str
RECURSIVE Sorted(_)
Sorted(S) ==
    IF S = {} THEN <<>>
    ELSE LET m == CHOOSE x \in S : \A y \in S \ {x} : LexLess(x, y)
         IN  <<m>> \o Sorted(S \ {m})

\* sum(f[x] for x in S)
RECURSIVE SumOver(_, _)
SumOver(f, S) ==
    IF S = {} THEN 0
    ELSE LET x == CHOOSE y \in S : TRUE
         IN  f[x] + SumOver(f, S \ {x})

\* sum(s) for a list of numbers
RECURSIVE SumSeq(_)
SumSeq(s) == IF Len(s) = 0 THEN 0 ELSE s[1] + SumSeq(Tail(s))

\* [x for x in s if x in S], order kept
RECURSIVE FilterIn(_, _)
FilterIn(s, S) ==
    IF Len(s) = 0 THEN <<>>
    ELSE (IF s[1] \in S THEN <<s[1]>> ELSE <<>>) \o FilterIn(Tail(s), S)

\* {h["name"] for h in report.get("holdings", []) if h.get("name")}
HeldNames(report) ==
    {report.holdings[i].name : i \in Idx(report.holdings)} \ {<<>>}

\* {h["name"]: h["rank"] for h in ... if h.get("name")}: a later duplicate wins
RankOf(report, name) ==
    LET hs == report.holdings
        last == CHOOSE i \in Idx(hs) :
                    /\ hs[i].name = name
                    /\ \A j \in Idx(hs) : hs[j].name = name => j <= i
    IN  hs[last].rank

---------------------------------------------------------------------------
(* Program constants *)

\* compute_theme_trend's default window
Window == 3

\* the windows compute_theme_trend is called with
Windows == 1..Window

---------------------------------------------------------------------------
(* compute_theme_intensity *)

\* mutant: the zero total is not replaced, and a theme of a report whose
\* counts sum to 0 gets the full score
ThemeIntensityRecord_NoGuard(report) ==
    LET kw_data == report.theme_keywords
        total_keywords == SumOver(kw_data, DOMAIN kw_data)
    IN  [month |-> report.report_month,
         scores |-> [theme \in DOMAIN kw_data |->
                        IF total_keywords = 0 THEN 10000
                        ELSE RoundDiv(kw_data[theme] * 10000, total_keywords)],
         total_keywords |-> total_keywords]

\* one record of compute_theme_intensity's result; scores in hundredths
ThemeIntensityRecord(report) ==
    LET kw_data == report.theme_keywords
        total0 == SumOver(kw_data, DOMAIN kw_data)
        total_keywords == IF total0 = 0 THEN 1 ELSE total0
    IN  [month |-> report.report_month,
         scores |-> [theme \in DOMAIN kw_data |->
                        RoundDiv(kw_data[theme] * 10000, total_keywords)],
         total_keywords |-> total_keywords]

compute_theme_intensity(rs) == [i \in Idx(rs) |-> ThemeIntensityRecord(rs[i])]

---------------------------------------------------------------------------
(* compute_theme_trend *)

\* item["scores"].get(theme, 0)
ScoreGet(item, theme) ==
    IF theme \in DOMAIN item.scores THEN item.scores[theme] ELSE 0

\* mutant: the window is centred and takes in the next month's value
MovingAverage_LookAhead(values, i, window) ==
    LET start == Max(1, i - window + 1)
        stop == Min(i + 1, Len(values))
    IN  [num |-> SumSeq(SubSeq(values, start, stop)), den |-> stop - start + 1]

\* ma[i] as an exact fraction [num, den]: mean of values[max(0, i-window+1) .. i]
MovingAverage(values, i, window) ==
    LET start == Max(1, i - window + 1)
    IN  [num |-> SumSeq(SubSeq(values, start, i)), den |-> i - start + 1]

\* mutant: the first delta is the first moving average itself (ma[-1] as 0)
Delta_FromZero(values, i, window) ==
    LET a == MovingAverage(values, i, window)
        b == IF i = 1 THEN [num |-> 0, den |-> 1]
             ELSE MovingAverage(values, i - 1, window)
    IN  [num |-> a.num * b.den - b.num * a.den, den |-> a.den * b.den]

\* deltas[i] as an exact fraction: 0 for the first point, ma[i] - ma[i-1] after
Delta(values, i, window) ==
    IF i = 1 THEN [num |-> 0, den |-> 1]
    ELSE LET a == MovingAverage(values, i, window)
             b == MovingAverage(values, i - 1, window)
         IN  [num |-> a.num * b.den - b.num * a.den, den |-> a.den * b.den]

\* "up" if deltas[i] > 0.5 else ("down" if deltas[i] < -0.5 else "stable")
Direction(d) ==
    IF FloatAtLeast(d.num, d.den, 50, 1) THEN "up"
    ELSE IF FloatAtMost(d.num, d.den, -50, 1) THEN "down"
    ELSE "stable"

\* trend_data of one theme
TrendData(theme_intensity, theme, window) ==
    LET values == [i \in Idx(theme_intensity) |->
                      ScoreGet(theme_intensity[i], theme)]
    IN  [i \in Idx(theme_intensity) |->
            LET ma == MovingAverage(values, i, window)
                d == Delta(values, i, window)
            IN  [month |-> theme_intensity[i].month,
                 value |-> values[i],
                 ma |-> RoundDiv(ma.num, ma.den),
                 delta |-> RoundDiv(d.num, d.den),
                 direction |-> Direction(d)]]

compute_theme_trend(theme_intensity, window) ==
    LET themes == UNION {DOMAIN theme_intensity[i].scores :
                            i \in Idx(theme_intensity)}
    IN  [theme \in themes |-> TrendData(theme_intensity, theme, window)]

---------------------------------------------------------------------------
(* analyze_holdings_history *)

\* h.get("rank", 0)
RankGet(h) == IF "rank" \in DOMAIN h THEN h.rank ELSE 0

\* the entries one report adds to stock_history[name]
RECURSIVE HistoryOfHoldings(_, _, _)
HistoryOfHoldings(month, hs, name) ==
    IF Len(hs) = 0 THEN <<>>
    ELSE (IF hs[1].name = name
          THEN <<[month |-> month, rank |-> RankGet(hs[1]), weight |-> hs[1].weight]>>
          ELSE <<>>) \o HistoryOfHoldings(month, Tail(hs), name)

\* stock_history[name]
RECURSIVE StockHistory(_, _)
StockHistory(rs, name) ==
    IF Len(rs) = 0 THEN <<>>
    ELSE HistoryOfHoldings(rs[1].report_month, rs[1].holdings, name)
         \o StockHistory(Tail(rs), name)

\* consecutive: trailing months of the corpus found in present_months
RECURSIVE Consecutive(_, _)
Consecutive(all_months, present_months) ==
    IF Len(all_months) = 0 THEN 0
    ELSE IF all_months[Len(all_months)] \in present_months
         THEN 1 + Consecutive(SubSeq(all_months, 1, Len(all_months) - 1),
                              present_months)
         ELSE 0

\* analysis[name]; avg_rank and appearance_rate in tenths, volatility in hundredths
StockAnalysis(rs, name) ==
    LET history == StockHistory(rs, name)
        months_present == Len(history)
        ranks == [i \in Idx(history) |-> history[i].rank]
        all_months == [i \in Idx(rs) |-> rs[i].report_month]
        present_months == {history[i].month : i \in Idx(history)}
        rank_changes == [i \in 1..(Len(history) - 1) |->
                            history[i + 1].rank - history[i].rank]
        abs_changes == [i \in Idx(rank_changes) |-> Abs(rank_changes[i])]
    IN  [total_appearances |-> months_present,
         appearance_rate |-> RoundDiv(months_present * 1000, Max(Len(rs), 1)),
         avg_rank |-> RoundDiv(SumSeq(ranks) * 10, Len(ranks)),
         best_rank |-> CHOOSE r \in Range(ranks) : \A q \in Range(ranks) : r <= q,
         consecutive_months |-> Consecutive(all_months, present_months),
         history |-> history,
         rank_volatility |-> RoundDiv(SumSeq(abs_changes) * 100,
                                      Max(Len(rank_changes), 1))]

analyze_holdings_history(rs) ==
    LET names == UNION {HeldNames(rs[i]) : i \in Idx(rs)}
    IN  [name \in names |-> StockAnalysis(rs, name)]

---------------------------------------------------------------------------
(* detect_holding_changes *)

\* list(current.keys()): the non-empty names in first-occurrence order
RECURSIVE KeysInOrder(_, _)
KeysInOrder(hs, seen) ==
    IF Len(hs) = 0 THEN <<>>
    ELSE IF hs[1].name = <<>> \/ hs[1].name \in seen
         THEN KeysInOrder(Tail(hs), seen)
         ELSE <<hs[1].name>> \o KeysInOrder(Tail(hs), seen \cup {hs[1].name})

\* mutant: diff = current[name] - previous[name]
RECURSIVE RankMoves_Flipped(_, _, _, _)
RankMoves_Flipped(names, prev, curr, up) ==
    IF Len(names) = 0 THEN <<>>
    ELSE LET name == names[1]
             diff == IF name \in HeldNames(prev)
                     THEN RankOf(curr, name) - RankOf(prev, name)
                     ELSE 0
             hit == IF up THEN diff > 0 ELSE diff < 0
         IN  (IF hit THEN <<[name |-> name, change |-> diff]>> ELSE <<>>)
             \o RankMoves_Flipped(Tail(names), prev, curr, up)

\* the rank_up (up = TRUE) or rank_down list of one month
RECURSIVE RankMoves(_, _, _, _)
RankMoves(names, prev, curr, up) ==
    IF Len(names) = 0 THEN <<>>
    ELSE LET name == names[1]
             diff == IF name \in HeldNames(prev)
                     THEN RankOf(prev, name) - RankOf(curr, name)
                     ELSE 0
             hit == IF up THEN diff > 0 ELSE diff < 0
         IN  (IF hit THEN <<[name |-> name, change |-> diff]>> ELSE <<>>)
             \o RankMoves(Tail(names), prev, curr, up)

\* mutant: a new entry is a name held in no earlier report
HoldingChange_EverHeld(rs, i) ==
    LET current == KeysInOrder(rs[i].holdings, {})
    IN  IF i = 1
        THEN [month |-> rs[i].report_month, new_entries |-> current,
              removed |-> <<>>, rank_up |-> <<>>, rank_down |-> <<>>]
        ELSE LET previous == KeysInOrder(rs[i - 1].holdings, {})
                 earlier == UNION {HeldNames(rs[j]) : j \in 1..(i - 1)}
             IN  [month |-> rs[i].report_month,
                  new_entries |-> FilterIn(current, Range(current) \ earlier),
                  removed |-> FilterIn(previous, Range(previous) \ Range(current)),
                  rank_up |-> RankMoves(current, rs[i - 1], rs[i], TRUE),
                  rank_down |-> RankMoves(current, rs[i - 1], rs[i], FALSE)]

\* changes[i]
HoldingChange(rs, i) ==
    LET current == KeysInOrder(rs[i].holdings, {})
    IN  IF i = 1
        THEN [month |-> rs[i].report_month, new_entries |-> current,
              removed |-> <<>>, rank_up |-> <<>>, rank_down |-> <<>>]
        ELSE LET previous == KeysInOrder(rs[i - 1].holdings, {})
             IN  [month |-> rs[i].report_month,
                  new_entries |-> FilterIn(current, Range(current) \ Range(previous)),
                  removed |-> FilterIn(previous, Range(previous) \ Range(current)),
                  rank_up |-> RankMoves(current, rs[i - 1], rs[i], TRUE),
                  rank_down |-> RankMoves(current, rs[i - 1], rs[i], FALSE)]

detect_holding_changes(rs) == [i \in Idx(rs) |-> HoldingChange(rs, i)]

\* h["rank"] of the dict comprehensions of lines 167 and 179 raises KeyError:
\* some report has a named holding without a rank
RankKeyError(rs) ==
    \E i \in Idx(rs) :
        \E j \in Idx(rs[i].holdings) :
            /\ rs[i].holdings[j].name # <<>>
            /\ "rank" \notin DOMAIN rs[i].holdings[j]

---------------------------------------------------------------------------
(* estimate_candidates: the parts shared by every candidate *)

\* the factor keys of score_components
Factors == {"theme_match", "past_frequency", "description_sim",
            "sector_trend", "signal_match", "cycle_tendency"}

\* train_reports = reports[:cutoff_idx + 1]
TrainReports(rs, cutoff) == SubSeq(rs, 1, cutoff + 1)

\* mutant: latest = reports[-1], the last report of the whole corpus
Latest_OfCorpus(rs, cutoff) == rs[Len(rs)]

\* latest = train_reports[-1]
Latest(rs, cutoff) == TrainReports(rs, cutoff)[cutoff + 1]

\* latest_themes: the value of each theme's first trend point of latest_month
LatestThemes(trends, latest_month) ==
    LET has(theme) == \E i \in Idx(trends[theme]) :
                          trends[theme][i].month = latest_month
        first(theme) == CHOOSE i \in Idx(trends[theme]) :
                            /\ trends[theme][i].month = latest_month
                            /\ \A j \in 1..(i - 1) :
                                   trends[theme][j].month # latest_month
    IN  [theme \in {t \in DOMAIN trends : has(t)} |->
            trends[theme][first(theme)].value]

\* latest_themes.get(theme, 0)
ThemeGet(latest_themes, theme) ==
    IF theme \in DOMAIN latest_themes THEN latest_themes[theme] ELSE 0

\* stock_appearances[name]: named holdings entries of the train prefix
RECURSIVE StockAppearances(_, _)
StockAppearances(train, name) ==
    IF Len(train) = 0 THEN 0
    ELSE Cardinality({i \in Idx(train[1].holdings) :
                         train[1].holdings[i].name = name})
         + StockAppearances(Tail(train), name)

\* past_stocks
PastStocks(train) == UNION {HeldNames(train[i]) : i \in Idx(train)}

\* mutant: the stocks held in the cutoff report are dropped from the candidates
CandidateSet_NewOnly(train) ==
    (PastStocks(train)
     \cup {config.candidate_universe[i].name : i \in Idx(config.candidate_universe)})
    \ HeldNames(train[Len(train)])

\* candidates: past_stocks plus every name of CANDIDATE_UNIVERSE
CandidateSet(train) ==
    PastStocks(train)
    \cup {config.candidate_universe[i].name : i \in Idx(config.candidate_universe)}

\* cand_sectors: the sectors CANDIDATE_UNIVERSE lists for the name, in order
RECURSIVE SectorsOf(_, _)
SectorsOf(universe, cand_name) ==
    IF Len(universe) = 0 THEN <<>>
    ELSE (IF universe[1].name = cand_name THEN <<universe[1].sector>> ELSE <<>>)
         \o SectorsOf(Tail(universe), cand_name)

\* kw in cand_name or any(kw in s for s in cand_sectors)
KwMatches(kw, cand_name, cand_sectors) ==
    \/ Contains(kw, cand_name)
    \/ \E i \in Idx(cand_sectors) : Contains(kw, cand_sectors[i])

\* prev_sectors / curr_sectors: holdings of a report per non-empty sector
SectorCount(report, s) ==
    Cardinality({i \in Idx(report.holdings) :
                    report.holdings[i].sector = s /\ s # <<>>})

---------------------------------------------------------------------------
(* estimate_candidates: the six factors of one candidate *)

\* mutant: a theme is appended once for each of its matching keywords
RECURSIVE ThemeMatches_PerKeyword(_, _, _)
ThemeMatches_PerKeyword(theme_keywords, cand_name, cand_sectors) ==
    IF Len(theme_keywords) = 0 THEN <<>>
    ELSE LET e == theme_keywords[1]
             hits == {k \in Idx(e.keywords) :
                         KwMatches(e.keywords[k], cand_name, cand_sectors)}
         IN  [i \in 1..Cardinality(hits) |-> e.theme]
             \o ThemeMatches_PerKeyword(Tail(theme_keywords), cand_name, cand_sectors)

\* theme_matches: the themes of THEME_KEYWORDS one of whose keywords matches
RECURSIVE ThemeMatches(_, _, _)
ThemeMatches(theme_keywords, cand_name, cand_sectors) ==
    IF Len(theme_keywords) = 0 THEN <<>>
    ELSE LET e == theme_keywords[1]
             hit == \E k \in Idx(e.keywords) :
                        KwMatches(e.keywords[k], cand_name, cand_sectors)
         IN  (IF hit THEN <<e.theme>> ELSE <<>>)
             \o ThemeMatches(Tail(theme_keywords), cand_name, cand_sectors)

\* mutant: theme_score without the min(.., 1.0)
ThemeScore_Unclamped(latest_themes, theme_matches) ==
    SumSeq([i \in Idx(theme_matches) |-> ThemeGet(latest_themes, theme_matches[i])])

\* theme_score before rounding, in 1/10000: min(sum of theme_val / 100, 1.0)
ThemeScore(latest_themes, theme_matches) ==
    Min(SumSeq([i \in Idx(theme_matches) |->
                   ThemeGet(latest_themes, theme_matches[i])]), 10000)

\* the re-entry case: seen in the train prefix but not held at the cutoff
IsReentry(train, cand_name) ==
    /\ cand_name \in PastStocks(train)
    /\ cand_name \notin HeldNames(train[Len(train)])

\* round(min(freq, 1.0), 3): appearances / months, times 1.3 on re-entry
PastFrequency(train, cand_name) ==
    LET num == StockAppearances(train, cand_name)
                 * (IF IsReentry(train, cand_name) THEN 13 ELSE 10)
        den == Max(Len(train), 1) * 10
    IN  IF num >= den THEN 1000 ELSE RoundDiv(num * 1000, den)

\* number of aspects with a keyword matching the candidate and the policy text
RECURSIVE AspectHits(_, _, _, _)
AspectHits(aspects, cand_name, cand_sectors, policy_text) ==
    IF Len(aspects) = 0 THEN 0
    ELSE LET kws == aspects[1].keywords
             hit == \E k \in Idx(kws) :
                        /\ KwMatches(kws[k], cand_name, cand_sectors)
                        /\ Contains(kws[k], policy_text)
         IN  (IF hit THEN 1 ELSE 0)
             + AspectHits(Tail(aspects), cand_name, cand_sectors, policy_text)

\* desc_score = min(0.2 per aspect hit, 1.0)
DescScore(latest, cand_name, cand_sectors) ==
    Min(200 * AspectHits(config.evaluation_aspects, cand_name, cand_sectors,
                         latest.future_policy), 1000)

\* the loop over cand_sectors: the first sector that grew, or stayed non-zero
RECURSIVE SectorWalk(_, _, _)
SectorWalk(cand_sectors, prev, curr) ==
    IF Len(cand_sectors) = 0 THEN [score |-> 0, why |-> <<>>]
    ELSE LET s == cand_sectors[1]
             c == SectorCount(curr, s)
             p == SectorCount(prev, s)
         IN  IF c > p THEN [score |-> 700, why |-> <<<<"sector_up", s>>>>]
             ELSE IF c = p /\ c > 0 THEN [score |-> 400, why |-> <<>>]
             ELSE SectorWalk(Tail(cand_sectors), prev, curr)

\* sector_score with its explanation
SectorTrend(train, cand_sectors) ==
    IF Len(train) >= 2
    THEN SectorWalk(cand_sectors, train[Len(train) - 1], train[Len(train)])
    ELSE [score |-> 0, why |-> <<>>]

\* the +0.2 loop of signal_match over cand_sectors
RECURSIVE SignalBoost(_, _, _)
SignalBoost(score, cand_sectors, latest_themes) ==
    IF Len(cand_sectors) = 0 THEN score
    ELSE LET s == cand_sectors[1]
             hot == \E t \in Idx(config.theme_keywords) :
                        LET e == config.theme_keywords[t]
                        IN  /\ \E k \in Idx(e.keywords) : Contains(e.keywords[k], s)
                            /\ e.theme \in DOMAIN latest_themes
                            /\ latest_themes[e.theme] > 1500
         IN  SignalBoost(IF hot THEN Min(score + 200, 1000) ELSE score,
                         Tail(cand_sectors), latest_themes)

\* signal_score
SignalScore(latest, cand_sectors, latest_themes) ==
    LET base == IF Len(latest.positive) > Len(latest.cautious) THEN 600
                ELSE IF Len(latest.positive) > 0 THEN 300
                ELSE 0
    IN  SignalBoost(base, cand_sectors, latest_themes)

\* cycle_score with its explanation
CycleTendency(analysis, cand_name) ==
    IF cand_name \notin DOMAIN analysis THEN [score |-> 0, why |-> <<>>]
    ELSE LET ha == analysis[cand_name]
         IN  IF ha.consecutive_months = 0 /\ ha.total_appearances > 1
             THEN [score |-> 700, why |-> <<<<"cycle", ha.total_appearances>>>>]
             ELSE IF ha.rank_volatility > 200 THEN [score |-> 400, why |-> <<>>]
             ELSE [score |-> 0, why |-> <<>>]

\* total_score before rounding, in millionths
WeightedSum(score_components) ==
    SumOver([key \in DOMAIN config.score_weights |->
                config.score_weights[key]
                * (IF key \in DOMAIN score_components
                   THEN score_components[key] ELSE 0)],
            DOMAIN config.score_weights)

\* mutant: the two upper tiers carry each other's label
Confidence_Swapped(total_score) ==
    IF FloatAtLeast(total_score, 1, 500000, 1) THEN "Medium"
    ELSE IF FloatAtLeast(total_score, 1, 300000, 1) THEN "High"
    ELSE "Low"

\* the confidence tier of an unrounded total_score
Confidence(total_score) ==
    IF FloatAtLeast(total_score, 1, 500000, 1) THEN "High"
    ELSE IF FloatAtLeast(total_score, 1, 300000, 1) THEN "Medium"
    ELSE "Low"

\* the placeholder explanation
Placeholder == <<"none">>

\* round(total_score, 3)
ReportedScore(total_score) == RoundDiv(total_score, 1000)

\* mutant: the explanations are returned as collected, without the fallback
Explained_NoFallback(explanations) == explanations

\* mutant: a single collected explanation is replaced by the fallback too
Explained_OffByOne(explanations) ==
    IF Len(explanations) > 1 THEN explanations ELSE <<Placeholder>>

\* explanations if explanations else [placeholder]
Explained(explanations) ==
    IF Len(explanations) > 0 THEN explanations ELSE <<Placeholder>>

\* the dict appended to results for cand_name
Candidate(rs, cutoff, trends, analysis, cand_name) ==
    LET train == TrainReports(rs, cutoff)
        latest == Latest(rs, cutoff)
        latest_themes == LatestThemes(trends, latest.report_month)
        cand_sectors == SectorsOf(config.candidate_universe, cand_name)
        theme_matches == ThemeMatches(config.theme_keywords, cand_name, cand_sectors)
        appearances == StockAppearances(train, cand_name)
        desc_score == DescScore(latest, cand_name, cand_sectors)
        sector == SectorTrend(train, cand_sectors)
        signal_score == SignalScore(latest, cand_sectors, latest_themes)
        cycle == CycleTendency(analysis, cand_name)
        score_components ==
            [key \in Factors |->
                CASE key = "theme_match" ->
                         RoundDiv(ThemeScore(latest_themes, theme_matches), 10)
                  [] key = "past_frequency" -> PastFrequency(train, cand_name)
                  [] key = "description_sim" -> desc_score
                  [] key = "sector_trend" -> sector.score
                  [] key = "signal_match" -> signal_score
                  [] key = "cycle_tendency" -> cycle.score]
        explanations ==
            (IF Len(theme_matches) > 0
             THEN <<<<"theme", Range(theme_matches)>>>> ELSE <<>>)
            \o (IF IsReentry(train, cand_name)
                THEN <<<<"past_reentry", appearances>>>>
                ELSE IF cand_name \in PastStocks(train)
                THEN <<<<"past", appearances>>>> ELSE <<>>)
            \o (IF desc_score > 300 THEN <<<<"description">>>> ELSE <<>>)
            \o sector.why
            \o (IF signal_score > 500 THEN <<<<"signal">>>> ELSE <<>>)
            \o cycle.why
        total_score == WeightedSum(score_components)
    IN  [name |-> cand_name,
         total_score |-> ReportedScore(total_score),
         confidence |-> Confidence(total_score),
         is_current_holding |-> cand_name \in HeldNames(latest),
         score_breakdown |-> score_components,
         explanations |-> Explained(explanations)]

---------------------------------------------------------------------------
(* estimate_candidates: ranking *)

\* mutant: an equal score is placed before the ones already there
RECURSIVE InsertByScore_Unstable(_, _)
InsertByScore_Unstable(s, x) ==
    IF Len(s) = 0 THEN <<x>>
    ELSE IF s[1].total_score > x.total_score
         THEN <<s[1]>> \o InsertByScore_Unstable(Tail(s), x)
         ELSE <<x>> \o s

\* where a stable descending sort puts x among the already sorted s
RECURSIVE InsertByScore(_, _)
InsertByScore(s, x) ==
    IF Len(s) = 0 THEN <<x>>
    ELSE IF s[1].total_score >= x.total_score
         THEN <<s[1]>> \o InsertByScore(Tail(s), x)
         ELSE <<x>> \o s

\* results.sort(key=total_score, reverse=True): stable, ties keep their order
RECURSIVE SortByScore(_)
SortByScore(results) ==
    IF Len(results) = 0 THEN <<>>
    ELSE InsertByScore(SortByScore(SubSeq(results, 1, Len(results) - 1)),
                       results[Len(results)])

\* mutant: the guard also rejects cutoff 0
OutOfRange_OffByOne(rs, cutoff) == cutoff <= 0 \/ cutoff >= Len(rs)

\* the guard of line 263
OutOfRange(rs, cutoff) == cutoff < 0 \/ cutoff >= Len(rs)

estimate_candidates(rs, cutoff, trends, analysis, changes) ==
    IF OutOfRange(rs, cutoff) THEN <<>>
    ELSE LET candidates_list == Sorted(CandidateSet(TrainReports(rs, cutoff)))
         IN  SortByScore([i \in Idx(candidates_list) |->
                            Candidate(rs, cutoff, trends, analysis,
                                      candidates_list[i])])

---------------------------------------------------------------------------
(* run_backtest *)

\* s[:k]
Take(s, k) == SubSeq(s, 1, Min(Max(k, 0), Len(s)))

\* mutant: the held candidates are not filtered out
RECURSIVE NewCandidates_Unfiltered(_)
NewCandidates_Unfiltered(cands) ==
    IF Len(cands) = 0 THEN <<>>
    ELSE <<cands[1]>> \o NewCandidates_Unfiltered(Tail(cands))

\* [c for c in candidates if not c["is_current_holding"]]
RECURSIVE NewCandidates(_)
NewCandidates(cands) ==
    IF Len(cands) = 0 THEN <<>>
    ELSE (IF cands[1].is_current_holding THEN <<>> ELSE <<cands[1]>>)
         \o NewCandidates(Tail(cands))

\* max(top_k_values)
MaxK(top_k_values) ==
    CHOOSE k \in Range(top_k_values) : \A j \in Range(top_k_values) : j <= k

\* mutant: recall is divided by k like precision
Metric_RecallByK(new_candidates, new_entries, k) ==
    LET top == Take(new_candidates, k)
        top_k_names == {top[i].name : i \in Idx(top)}
        hits == top_k_names \cap new_entries
    IN  [predicted |-> top_k_names,
         hits |-> hits,
         hit_count |-> Cardinality(hits),
         precision |-> IF k > 0 THEN RoundDiv(Cardinality(hits) * 1000, k) ELSE 0,
         recall |-> IF k > 0 THEN RoundDiv(Cardinality(hits) * 1000, k) ELSE 0,
         hit_rate |-> IF Cardinality(hits) > 0 THEN 1 ELSE 0]

\* result["metrics"]["top_k"]; precision and recall in thousandths
Metric(new_candidates, new_entries, k) ==
    LET top == Take(new_candidates, k)
        top_k_names == {top[i].name : i \in Idx(top)}
        hits == top_k_names \cap new_entries
    IN  [predicted |-> top_k_names,
         hits |-> hits,
         hit_count |-> Cardinality(hits),
         precision |-> IF k > 0 THEN RoundDiv(Cardinality(hits) * 1000, k) ELSE 0,
         recall |-> RoundDiv(Cardinality(hits) * 1000,
                             Max(Cardinality(new_entries), 1)),
         hit_rate |-> IF Cardinality(hits) > 0 THEN 1 ELSE 0]

\* mutant: the target holdings are tested before the new entries
RECURSIVE HitExplanations_ContinuationFirst(_, _, _)
HitExplanations_ContinuationFirst(top, new_entries, target_holdings) ==
    IF Len(top) = 0 THEN <<>>
    ELSE (IF top[1].name \in target_holdings
          THEN <<[name |-> top[1].name, type |-> "continuation",
                  score |-> top[1].total_score, reason |-> <<>>]>>
          ELSE IF top[1].name \in new_entries
          THEN <<[name |-> top[1].name, type |-> "hit",
                  score |-> top[1].total_score, reason |-> top[1].explanations]>>
          ELSE <<>>)
         \o HitExplanations_ContinuationFirst(Tail(top), new_entries, target_holdings)

\* hit_explanations over new_candidates[:max(top_k_values)]
RECURSIVE HitExplanations(_, _, _)
HitExplanations(top, new_entries, target_holdings) ==
    IF Len(top) = 0 THEN <<>>
    ELSE (IF top[1].name \in new_entries
          THEN <<[name |-> top[1].name, type |-> "hit",
                  score |-> top[1].total_score, reason |-> top[1].explanations]>>
          ELSE IF top[1].name \in target_holdings
          THEN <<[name |-> top[1].name, type |-> "continuation",
                  score |-> top[1].total_score, reason |-> <<>>]>>
          ELSE <<>>)
         \o HitExplanations(Tail(top), new_entries, target_holdings)

\* mutant: the analyses are computed once, from the whole corpus
BacktestCandidates_Cached(rs, cutoff) ==
    LET train_reports == TrainReports(rs, cutoff)
    IN  estimate_candidates(train_reports, cutoff,
                            compute_theme_trend(compute_theme_intensity(rs), Window),
                            analyze_holdings_history(rs),
                            detect_holding_changes(rs))

\* the candidates run_backtest gets for one cutoff: every analysis is
\* recomputed from train_reports
BacktestCandidates(rs, cutoff) ==
    LET train_reports == TrainReports(rs, cutoff)
        theme_intensity == compute_theme_intensity(train_reports)
    IN  estimate_candidates(train_reports, cutoff,
                            compute_theme_trend(theme_intensity, Window),
                            analyze_holdings_history(train_reports),
                            detect_holding_changes(train_reports))

\* mutant: the explanations walk every candidate, held at the cutoff or not
PeriodResult_AllCandidates(rs, cutoff) ==
    LET train_reports == TrainReports(rs, cutoff)
        target_report == rs[cutoff + 2]
        target_holdings == HeldNames(target_report)
        current_holdings == HeldNames(train_reports[Len(train_reports)])
        new_entries == target_holdings \ current_holdings
        candidates_all == BacktestCandidates(rs, cutoff)
        new_candidates == NewCandidates(candidates_all)
        ks == config.top_k_values
    IN  [train_until |-> train_reports[Len(train_reports)].report_month,
         predicted_month |-> target_report.report_month,
         actual_new_entries |-> new_entries,
         metrics |-> [k \in Range(ks) |-> Metric(new_candidates, new_entries, k)],
         explanations |-> HitExplanations(Take(candidates_all, MaxK(ks)),
                                          new_entries, target_holdings)]

\* the result dict of one iteration of the loop over cutoff_idx
PeriodResult(rs, cutoff) ==
    LET train_reports == TrainReports(rs, cutoff)
        target_report == rs[cutoff + 2]
        target_holdings == HeldNames(target_report)
        current_holdings == HeldNames(train_reports[Len(train_reports)])
        new_entries == target_holdings \ current_holdings
        new_candidates == NewCandidates(BacktestCandidates(rs, cutoff))
        ks == config.top_k_values
    IN  [train_until |-> train_reports[Len(train_reports)].report_month,
         predicted_month |-> target_report.report_month,
         actual_new_entries |-> new_entries,
         metrics |-> [k \in Range(ks) |-> Metric(new_candidates, new_entries, k)],
         explanations |-> HitExplanations(Take(new_candidates, MaxK(ks)),
                                          new_entries, target_holdings)]

\* summary["top_k"]; averages in thousandths
Summary(results, k) ==
    LET n == Max(Len(results), 1)
    IN  [avg_hit_rate |->
             RoundDiv(SumSeq([i \in Idx(results) |->
                                 results[i].metrics[k].hit_rate]) * 1000, n),
         avg_precision |->
             RoundDiv(SumSeq([i \in Idx(results) |->
                                 results[i].metrics[k].precision]), n),
         avg_recall |->
             RoundDiv(SumSeq([i \in Idx(results) |->
                                 results[i].metrics[k].recall]), n),
         total_periods |-> Len(results)]

\* mutant: len(reports) < min_train
Insufficient_OffByOne(rs) == Len(rs) < config.min_training_months

\* len(reports) < min_train + 1
Insufficient(rs) == Len(rs) < config.min_training_months + 1

\* the dict returned on insufficient data: the message names min_train + 1
InsufficientResult == [error |-> config.min_training_months + 1, results |-> <<>>]

---------------------------------------------------------------------------
(* Inputs: the configuration and the report corpus *)

\* THEME_KEYWORDS: theme -> keywords, in dict order
ThemeKeywords ==
    << [theme |-> "ai", keywords |-> << <<1>>, <<1, 2>> >>],
       [theme |-> "ev", keywords |-> << <<2>> >>],
       [theme |-> "dc", keywords |-> << <<7>> >>] >>

\* EVALUATION_ASPECTS: aspect -> keywords, in dict order
EvaluationAspects ==
    << [aspect |-> "growth",   keywords |-> << <<7>> >>],
       [aspect |-> "tech",     keywords |-> << <<5>>, <<2>> >>],
       [aspect |-> "share",    keywords |-> << <<3>> >>],
       [aspect |-> "profit",   keywords |-> << <<2, 7>> >>],
       [aspect |-> "market",   keywords |-> << <<7>>, <<1>> >>],
       [aspect |-> "strategy", keywords |-> << <<3>>, <<4>> >>],
       [aspect |-> "finance",  keywords |-> << <<1>> >>] >>

\* CANDIDATE_UNIVERSE: <<3>> is listed under two sectors, <<4>> is never held
CandidateUniverse ==
    << [name |-> <<3>>, sector |-> <<7>>],
       [name |-> <<3>>, sector |-> <<2, 7>>],
       [name |-> <<4>>, sector |-> <<6>>] >>

\* SCORE_WEIGHTS with BACKTEST_CONFIG, weights in thousandths
Settings ==
    { [score_weights |->
           [theme_match |-> 250, past_frequency |-> 200, description_sim |-> 150,
            sector_trend |-> 150, signal_match |-> 150, cycle_tendency |-> 100],
       min_training_months |-> 1, top_k_values |-> <<1, 2>>],
      [score_weights |->
           [theme_match |-> 300, past_frequency |-> 200, description_sim |-> 200,
            sector_trend |-> 100, signal_match |-> 100, cycle_tendency |-> 100],
       min_training_months |-> 2, top_k_values |-> <<1, 3>>] }

\* the configurations explored
Configs ==
    { [theme_keywords |-> ThemeKeywords,
       evaluation_aspects |-> EvaluationAspects,
       candidate_universe |-> CandidateUniverse,
       score_weights |-> b.score_weights,
       min_training_months |-> b.min_training_months,
       top_k_values |-> b.top_k_values] : b \in Settings }

\* one entry of a report's holdings table
Holding(name, rank, sector) ==
    [name |-> name, rank |-> rank, weight |-> rank, sector |-> sector]

\* an entry of a holdings table that the extraction left without a rank
HoldingNoRank(name, sector) ==
    [name |-> name, weight |-> 0, sector |-> sector]

\* the monthly reports the corpus is drawn from (report_month is set on ingestion)
ReportBodies ==
    { [holdings |-> << Holding(<<1, 2>>, 1, <<7>>) >>,
       theme_keywords |-> [t \in {"ai", "ev"} |-> IF t = "ai" THEN 1 ELSE 2],
       future_policy |-> <<>>,
       positive |-> <<>>, cautious |-> <<>>],
      [holdings |-> << Holding(<<3>>, 1, <<7>>), Holding(<<1, 2>>, 4, <<7>>) >>,
       theme_keywords |-> [t \in {"ai", "ev", "dc"} |->
                              IF t = "ai" THEN 3 ELSE IF t = "ev" THEN 0 ELSE 1],
       future_policy |-> <<3, 2, 7, 1, 4>>,
       positive |-> << <<8>>, <<9>> >>, cautious |-> << <<6>> >>],
      [holdings |-> <<>>,
       theme_keywords |-> [t \in {} |-> 0],
       future_policy |-> <<>>,
       positive |-> << <<8>> >>, cautious |-> << <<6>> >>],
      [holdings |-> << Holding(<<2, 3>>, 1, <<2, 7>>), Holding(<<3>>, 2, <<7>>),
                       Holding(<<>>, 3, <<7>>) >>,
       theme_keywords |-> [t \in {"ai", "ev", "dc"} |-> 1],
       future_policy |-> <<2>>,
       positive |-> << <<8>> >>, cautious |-> <<>>] }

\* the monthly reports the analysis functions are exercised on: shared and
\* changing holdings, rank swaps, a repeated and an unnamed holding, a named
\* holding without a rank, themes with zero counts, a theme seen in one month
\* only, and no theme at all
AnalysisBodies ==
    { [holdings |-> << Holding(<<1>>, 1, <<7>>), Holding(<<2>>, 2, <<7>>),
                       Holding(<<3>>, 3, <<7>>) >>,
       theme_keywords |-> [t \in {"ai", "ev"} |-> IF t = "ai" THEN 1 ELSE 5],
       future_policy |-> <<>>, positive |-> <<>>, cautious |-> <<>>],
      [holdings |-> << Holding(<<1>>, 1, <<7>>), Holding(<<2>>, 2, <<7>>),
                       Holding(<<4>>, 3, <<7>>) >>,
       theme_keywords |-> [t \in {"ai", "ev"} |-> IF t = "ai" THEN 2 ELSE 9],
       future_policy |-> <<>>, positive |-> <<>>, cautious |-> <<>>],
      [holdings |-> << Holding(<<2>>, 1, <<7>>), Holding(<<1>>, 2, <<7>>),
                       Holding(<<3>>, 3, <<7>>) >>,
       theme_keywords |-> [t \in {"ai", "ev"} |-> 1],
       future_policy |-> <<>>, positive |-> <<>>, cautious |-> <<>>],
      [holdings |-> <<>>,
       theme_keywords |-> [t \in {} |-> 0],
       future_policy |-> <<>>, positive |-> <<>>, cautious |-> <<>>],
      [holdings |-> << Holding(<<3>>, 1, <<7>>), Holding(<<>>, 2, <<7>>),
                       Holding(<<3>>, 3, <<7>>) >>,
       theme_keywords |-> [t \in {"ai", "ev"} |-> 0],
       future_policy |-> <<>>, positive |-> <<>>, cautious |-> <<>>],
      [holdings |-> << Holding(<<4>>, 1, <<7>>) >>,
       theme_keywords |-> [t \in {"ai", "ev", "dc"} |->
                              IF t = "dc" THEN 2 ELSE 1],
       future_policy |-> <<>>, positive |-> <<>>, cautious |-> <<>>],
      [holdings |-> << Holding(<<1>>, 1, <<7>>), HoldingNoRank(<<2>>, <<7>>) >>,
       theme_keywords |-> [t \in {"ai", "ev"} |-> 1],
       future_policy |-> <<>>, positive |-> <<>>, cautious |-> <<>>] }

\* a report body as the report of a given month
AsReport(body, month) ==
    [report_month |-> month,
     holdings |-> body.holdings,
     theme_keywords |-> body.theme_keywords,
     future_policy |-> body.future_policy,
     positive |-> body.positive,
     cautious |-> body.cautious]

\* a theme_trends argument not derived from the corpus: every theme at 100
FreeTrends ==
    [theme \in {"ai", "ev", "dc"} |->
        [i \in 1..MaxReports |->
            [month |-> i, value |-> 10000, ma |-> 10000, delta |-> 0,
             direction |-> "stable"]]]

\* the analyses run_analysis and run_backtest pass on, from the first n reports
TrendsOf(rs, n) ==
    compute_theme_trend(compute_theme_intensity(SubSeq(rs, 1, n)), Window)

\* the analyses a call is given: of no report, of the train prefix, of the
\* whole corpus, or of the whole corpus with the free theme_trends table
ArgChoices(rs, cutoff) ==
    { <<0, FALSE>>, <<Min(Max(cutoff + 1, 0), Len(rs)), FALSE>>,
      <<Len(rs), FALSE>>, <<Len(rs), TRUE>> }

---------------------------------------------------------------------------
(* The state machine *)

Init ==
    /\ config \in Configs
    /\ float_low \in BOOLEAN
    /\ reports = <<>>
    /\ pc = "load"
    /\ cutoff_idx = 0
    /\ theme_trends = <<>>
    /\ holdings_analysis = <<>>
    /\ candidates = <<>>
    /\ backtest_results = <<>>
    /\ backtest = <<>>
    /\ trend_window = Window
    /\ intensity_list = <<>>
    /\ changes_list = <<>>

\* the ingestion collaborator appends the next month's report
Ingest(body) ==
    /\ pc = "load"
    /\ Len(reports) < MaxReports
    /\ reports' = Append(reports, AsReport(body, Len(reports) + 1))
    /\ UNCHANGED <<config, float_low, pc, cutoff_idx, theme_trends, holdings_analysis,
                   candidates, backtest_results, backtest>>
    /\ UNCHANGED <<trend_window, intensity_list, changes_list>>

\* a call estimate_candidates(reports, cutoff, theme_trends, holdings_analysis, _)
\* with analyses of the first n reports (or a free theme_trends table)
CallEstimate(cutoff, n, free) ==
    /\ pc = "load"
    /\ LET trends == IF free THEN FreeTrends ELSE TrendsOf(reports, n)
           analysis == analyze_holdings_history(SubSeq(reports, 1, n))
           changes == detect_holding_changes(SubSeq(reports, 1, n))
       IN  /\ theme_trends' = trends
           /\ holdings_analysis' = analysis
           /\ candidates' = estimate_candidates(reports, cutoff, trends,
                                                analysis, changes)
    /\ cutoff_idx' = cutoff
    /\ pc' = "estimated"
    /\ UNCHANGED <<config, float_low, reports, backtest_results, backtest>>
    /\ UNCHANGED <<trend_window, intensity_list, changes_list>>

\* steps 1 and 2 of run_analysis: the analyses of the whole corpus, with the
\* window compute_theme_trend is given; a KeyError in detect_holding_changes
\* ends the run after the analyses before it were assigned
Analyze(w) ==
    /\ pc = "load"
    /\ LET intensity == compute_theme_intensity(reports)
       IN  /\ intensity_list' = intensity
           /\ theme_trends' = compute_theme_trend(intensity, w)
    /\ holdings_analysis' = analyze_holdings_history(reports)
    /\ IF RankKeyError(reports)
       THEN changes_list' = changes_list /\ pc' = "raised"
       ELSE changes_list' = detect_holding_changes(reports) /\ pc' = "analyzed"
    /\ trend_window' = w
    /\ UNCHANGED <<config, float_low, reports, cutoff_idx, candidates,
                   backtest_results, backtest>>

\* mutant: the loop starts one cutoff early, range(min_train - 1, ..)
BacktestStart_EarlyCutoff ==
    /\ pc = "load"
    /\ IF Insufficient(reports)
       THEN /\ backtest' = InsufficientResult
            /\ pc' = "bt_done"
            /\ UNCHANGED cutoff_idx
       ELSE /\ cutoff_idx' = config.min_training_months - 1
            /\ pc' = "bt_loop"
            /\ UNCHANGED backtest
    /\ UNCHANGED <<config, float_low, reports, theme_trends, holdings_analysis, candidates,
                   backtest_results>>
    /\ UNCHANGED <<trend_window, intensity_list, changes_list>>

\* run_backtest up to the loop: the insufficient-data return, or the first cutoff
BacktestStart ==
    /\ pc = "load"
    /\ IF Insufficient(reports)
       THEN /\ backtest' = InsufficientResult
            /\ pc' = "bt_done"
            /\ UNCHANGED cutoff_idx
       ELSE /\ cutoff_idx' = config.min_training_months
            /\ pc' = "bt_loop"
            /\ UNCHANGED backtest
    /\ UNCHANGED <<config, float_low, reports, theme_trends, holdings_analysis, candidates,
                   backtest_results>>
    /\ UNCHANGED <<trend_window, intensity_list, changes_list>>

\* one iteration of `for cutoff_idx in range(min_train, len(reports) - 1)`
BacktestStep ==
    /\ pc = "bt_loop"
    /\ cutoff_idx < Len(reports) - 1
    /\ backtest_results' = Append(backtest_results,
                                  PeriodResult(reports, cutoff_idx))
    /\ cutoff_idx' = cutoff_idx + 1
    /\ UNCHANGED <<config, float_low, reports, pc, theme_trends, holdings_analysis,
                   candidates, backtest>>
    /\ UNCHANGED <<trend_window, intensity_list, changes_list>>

\* the loop is over: the summary and the returned dict
BacktestReturn ==
    /\ pc = "bt_loop"
    /\ cutoff_idx >= Len(reports) - 1
    /\ backtest' = [summary |-> [k \in Range(config.top_k_values) |->
                                    Summary(backtest_results, k)],
                    results |-> backtest_results]
    /\ pc' = "bt_done"
    /\ UNCHANGED <<config, float_low, reports, cutoff_idx, theme_trends, holdings_analysis,
                   candidates, backtest_results>>
    /\ UNCHANGED <<trend_window, intensity_list, changes_list>>

Next ==
    \/ \E body \in ReportBodies : Ingest(body)
    \/ \E cutoff \in -1..Len(reports) :
           \E a \in ArgChoices(reports, cutoff) : CallEstimate(cutoff, a[1], a[2])
    \/ \E w \in Windows : Analyze(w)
    \/ BacktestStart
    \/ BacktestStep
    \/ BacktestReturn

Spec == Init /\ [][Next]_vars

\* the reports that may also arrive without a report_month
UndatedBodies ==
    {body \in AnalysisBodies :
        \/ body.holdings = <<>>
        \/ /\ Len(body.holdings) = 3
           /\ body.holdings[3].name = <<3>>
           /\ body.holdings[1].name = <<1>>}

\* the next report has no report_month: report.get("report_month", "") gives
\* the empty string, written 0 here
IngestUndated(body) ==
    /\ pc = "load"
    /\ Len(reports) < MaxReports
    /\ reports' = Append(reports, AsReport(body, 0))
    /\ UNCHANGED <<config, float_low, pc, cutoff_idx, theme_trends, holdings_analysis,
                   candidates, backtest_results, backtest>>
    /\ UNCHANGED <<trend_window, intensity_list, changes_list>>

\* the analysis functions alone, on the corpora drawn from AnalysisBodies
AnalysisNext ==
    \/ \E body \in AnalysisBodies : Ingest(body)
    \/ \E body \in UndatedBodies : IngestUndated(body)
    \/ \E w \in Windows : Analyze(w)

AnalysisSpec == Init /\ [][AnalysisNext]_vars

---------------------------------------------------------------------------
(* Claims about estimate_candidates *)

\* a call of estimate_candidates has returned for a cutoff inside the corpus
Estimated == pc = "estimated"

InRange == cutoff_idx >= 0 /\ cutoff_idx <= Len(reports) - 1

\* corpora that hold the first n reports of rs and differ after them: the
\* corpus cut there, and the cut corpus followed by any one other report,
\* dated like the last kept report or after it
Alternatives(rs, n) ==
    {SubSeq(rs, 1, n)}
    \cup {Append(SubSeq(rs, 1, n), AsReport(b, m)) :
             b \in ReportBodies, m \in {n, n + 1}}

\* C1: the candidate list returned for cutoff c from a corpus is the list
\* returned, with the same analyses, from every corpus that holds the same
\* reports at indices 0..c, whatever follows them.
C1_LeakageInvariant ==
    (Estimated /\ InRange) =>
        \A other \in Alternatives(reports, cutoff_idx + 1) :
            estimate_candidates(other, cutoff_idx, theme_trends,
                                holdings_analysis, <<>>) = candidates

\* C1 witness: a ranked list was returned for a cutoff that is followed by
\* later reports, with analyses of the whole corpus
C1_Witness ==
    /\ Estimated
    /\ cutoff_idx >= 0
    /\ cutoff_idx + 1 < Len(reports)
    /\ Len(candidates) > 0
    /\ Len(reports[Len(reports)].holdings) > 0
    /\ DOMAIN holdings_analysis # {}

\* C3: an out-of-range cutoff gives the empty list; a cutoff inside the corpus
\* gives one candidate per name of the universe.
C3_OutOfRangeEmpty ==
    Estimated =>
        /\ (cutoff_idx < 0 \/ cutoff_idx >= Len(reports)) => candidates = <<>>
        /\ InRange =>
               /\ Len(candidates) > 0
               /\ Len(candidates) =
                      Cardinality({candidates[i].name : i \in Idx(candidates)})
               /\ \A i \in Idx(config.candidate_universe) :
                      \E j \in Idx(candidates) :
                          candidates[j].name = config.candidate_universe[i].name

\* C3 witness: a call with cutoff len(reports) on a non-empty corpus returned
\* the empty list
C3_Witness ==
    /\ Estimated
    /\ cutoff_idx = Len(reports)
    /\ Len(reports) > 0
    /\ candidates = <<>>

\* C4: the list is in non-increasing order of the reported total_score, and
\* candidates of equal reported total_score are in ascending order of name.
C4_RankedOrder ==
    Estimated =>
        \A i, j \in Idx(candidates) :
            i < j =>
                /\ candidates[i].total_score >= candidates[j].total_score
                /\ candidates[i].total_score = candidates[j].total_score
                       => LexLess(candidates[i].name, candidates[j].name)

\* C4 witness: a list with a tie of reported scores and a strict descent, whose
\* order is not the name order
C4_Witness ==
    /\ Estimated
    /\ \E i, j \in Idx(candidates) :
           i < j /\ candidates[i].total_score = candidates[j].total_score
    /\ \E i, j \in Idx(candidates) :
           /\ i < j
           /\ candidates[i].total_score > candidates[j].total_score
           /\ LexLess(candidates[j].name, candidates[i].name)

\* C5: the names returned are exactly the non-empty holding names of
\* reports[0..cutoff] together with the names of the reference universe, each
\* once; is_current_holding says whether the name is held in the cutoff report.
C5_CandidateUniverse ==
    (Estimated /\ InRange) =>
        /\ {candidates[i].name : i \in Idx(candidates)} =
               ((UNION {{reports[r].holdings[h].name :
                            h \in Idx(reports[r].holdings)} :
                        r \in 1..(cutoff_idx + 1)}) \ {<<>>})
               \cup {config.candidate_universe[i].name :
                        i \in Idx(config.candidate_universe)}
        /\ \A i, j \in Idx(candidates) :
               candidates[i].name = candidates[j].name => i = j
        /\ \A i \in Idx(candidates) :
               candidates[i].is_current_holding <=>
                   \E h \in Idx(reports[cutoff_idx + 1].holdings) :
                       reports[cutoff_idx + 1].holdings[h].name = candidates[i].name

\* C5 witness: one list holds a stock held at the cutoff, a stock held only
\* earlier, and a reference name never held
C5_Witness ==
    /\ Estimated
    /\ InRange
    /\ \E i, j, k \in Idx(candidates) :
           /\ candidates[i].is_current_holding
           /\ ~candidates[j].is_current_holding
           /\ candidates[j].score_breakdown["past_frequency"] > 0
           /\ ~candidates[k].is_current_holding
           /\ candidates[k].score_breakdown["past_frequency"] = 0
           /\ \A r \in Idx(reports) : candidates[k].name \notin HeldNames(reports[r])

\* C6: every entry of every score_breakdown lies in [0, 1].
C6_FactorRange ==
    Estimated =>
        \A i \in Idx(candidates) :
            /\ DOMAIN candidates[i].score_breakdown = Factors
            /\ \A key \in Factors :
                   /\ candidates[i].score_breakdown[key] >= 0
                   /\ candidates[i].score_breakdown[key] <= 1000

\* C6 witness: the clamps are reached: a candidate matching two themes of
\* value 100 each, and a candidate hitting six aspects, both scored 1
C6_Witness ==
    /\ Estimated
    /\ theme_trends = FreeTrends
    /\ \E i \in Idx(candidates) :
           /\ candidates[i].score_breakdown["theme_match"] = 1000
           /\ Len(ThemeMatches(config.theme_keywords, candidates[i].name,
                   SectorsOf(config.candidate_universe, candidates[i].name))) >= 2
    /\ \E i \in Idx(candidates) :
           /\ candidates[i].score_breakdown["description_sim"] = 1000
           /\ AspectHits(config.evaluation_aspects, candidates[i].name,
                  SectorsOf(config.candidate_universe, candidates[i].name),
                  reports[cutoff_idx + 1].future_policy) >= 6

\* the tier a reported total_score (thousandths) would give by the thresholds
TierOfReported(score) ==
    IF score >= 500 THEN "High" ELSE IF score >= 300 THEN "Medium" ELSE "Low"

\* C7 as claimed: confidence is the tier of the reported (rounded) total_score.
C7_ConfidenceOfReported ==
    Estimated =>
        \A i \in Idx(candidates) :
            candidates[i].confidence = TierOfReported(candidates[i].total_score)

\* Low < Medium < High
TierRank(confidence) ==
    CASE confidence = "Low" -> 0
      [] confidence = "Medium" -> 1
      [] confidence = "High" -> 2

\* C8: a strictly greater reported total_score never has a lower tier.
C8_ConfidenceMonotone ==
    Estimated =>
        \A i, j \in Idx(candidates) :
            candidates[i].total_score > candidates[j].total_score =>
                TierRank(candidates[i].confidence)
                    >= TierRank(candidates[j].confidence)

\* C8 witness: one list holds all three tiers
C8_Witness ==
    /\ Estimated
    /\ {candidates[i].confidence : i \in Idx(candidates)} = {"Low", "Medium", "High"}

\* all six factor scores of a candidate are 0
AllZero(c) == \A key \in Factors : c.score_breakdown[key] = 0

\* C9 as claimed: at least one explanation, and exactly the placeholder when
\* all six factor scores are 0.
C9_PlaceholderWhenAllZero ==
    Estimated =>
        \A i \in Idx(candidates) :
            /\ Len(candidates[i].explanations) >= 1
            /\ AllZero(candidates[i]) =>
                   candidates[i].explanations = <<Placeholder>>

\* the candidate matches a keyword of some theme, by name or reference sector
MatchesSomeTheme(name) ==
    \E t \in Idx(config.theme_keywords) :
        \E k \in Idx(config.theme_keywords[t].keywords) :
            \/ Contains(config.theme_keywords[t].keywords[k], name)
            \/ \E u \in Idx(config.candidate_universe) :
                   /\ config.candidate_universe[u].name = name
                   /\ Contains(config.theme_keywords[t].keywords[k],
                               config.candidate_universe[u].sector)

\* C9 amended: at least one explanation, and exactly the placeholder when all
\* six factor scores are 0, no theme keyword matches the candidate and the
\* candidate is not held anywhere in the train prefix.
C9_PlaceholderWhenNothingRecorded ==
    (Estimated /\ InRange) =>
        \A i \in Idx(candidates) :
            /\ Len(candidates[i].explanations) >= 1
            /\ ( /\ AllZero(candidates[i])
                 /\ ~MatchesSomeTheme(candidates[i].name)
                 /\ \A r \in 1..(cutoff_idx + 1) :
                        candidates[i].name \notin HeldNames(reports[r]) )
               => candidates[i].explanations = <<Placeholder>>

\* C9 witness: a list with a placeholder-only candidate and an explained one
C9_Witness ==
    /\ Estimated
    /\ \E i \in Idx(candidates) :
           AllZero(candidates[i]) /\ candidates[i].explanations = <<Placeholder>>
    /\ \E i \in Idx(candidates) : Len(candidates[i].explanations) >= 3

---------------------------------------------------------------------------
(* Claims about run_backtest *)

\* the cutoff of the i-th period result
CutoffOf(i) == config.min_training_months + i - 1

\* the corpora that hold the first n reports of rs and another report after them
OtherTargets(rs, n) ==
    {Append(SubSeq(rs, 1, n), AsReport(b, n + 1)) : b \in ReportBodies}

\* C2: the period result stored for cutoff c is the one computed from the
\* corpus cut after index c+1, so it is the same whatever follows; and its
\* predicted names are those computed from every corpus that holds the same
\* reports at indices 0..c, whatever the target report is.
C2_BacktestPrefixDependence ==
    \A i \in Idx(backtest_results) :
        LET c == CutoffOf(i)
        IN  /\ PeriodResult(SubSeq(reports, 1, c + 2), c) = backtest_results[i]
            /\ \A other \in OtherTargets(reports, c + 1) :
                   \A result \in {PeriodResult(other, c)} :
                       \A k \in Range(config.top_k_values) :
                           result.metrics[k].predicted
                               = backtest_results[i].metrics[k].predicted

\* C2 witness: a backtest of two cutoffs returned; the first has a report after
\* its target, predicted a name and had a hit
C2_Witness ==
    /\ pc = "bt_done"
    /\ Len(backtest_results) >= 2
    /\ Len(reports) > CutoffOf(1) + 2
    /\ Len(reports[Len(reports)].holdings) > 0
    /\ \E k \in Range(config.top_k_values) :
           backtest_results[1].metrics[k].hit_count > 0

\* C10: with fewer than min_training_months + 1 reports run_backtest returns
\* the insufficient-data result, an error message with an empty results list,
\* and evaluates no cutoff.
C10_InsufficientData ==
    (pc \in {"bt_loop", "bt_done"} /\ Len(reports) < config.min_training_months + 1) =>
        /\ pc = "bt_done"
        /\ DOMAIN backtest = {"error", "results"}
        /\ backtest.results = <<>>
        /\ backtest_results = <<>>

\* C10 witness: run_backtest returned for a corpus of exactly
\* min_training_months reports
C10_Witness ==
    /\ pc = "bt_done"
    /\ Len(reports) > 0
    /\ Len(reports) = config.min_training_months
    /\ "error" \in DOMAIN backtest

\* run_backtest returned its summary for a corpus it accepted
Backtested == pc = "bt_done" /\ ~Insufficient(reports)

\* C11: for an accepted corpus of N reports the periods are those of the cutoffs
\* min_training_months..N-2 in ascending order, each once; the period of cutoff
\* c has train_until the month of reports[c] and predicted_month the month of
\* reports[c+1]; every summary entry has total_periods N - 1 - min_training_months.
C11_EvaluatedCutoffs ==
    Backtested =>
        LET periods == Len(reports) - 1 - config.min_training_months
        IN  /\ Len(backtest.results) = periods
            /\ \A i \in Idx(backtest.results) :
                   /\ CutoffOf(i) >= config.min_training_months
                   /\ CutoffOf(i) <= Len(reports) - 2
                   /\ backtest.results[i].train_until
                          = reports[CutoffOf(i) + 1].report_month
                   /\ backtest.results[i].predicted_month
                          = reports[CutoffOf(i) + 2].report_month
            /\ \A k \in Range(config.top_k_values) :
                   backtest.summary[k].total_periods = periods

\* C11 witness: a backtest with min_training_months 2 over 4 reports returned
\* exactly one period, that of cutoff 2
C11_Witness ==
    /\ Backtested
    /\ config.min_training_months = 2
    /\ Len(reports) = 4
    /\ Len(backtest.results) = 1
    /\ backtest.results[1].train_until = 3
    /\ backtest.results[1].predicted_month = 4

\* the positions of the candidates not held in the cutoff report
NonHeld(cands, held) == {j \in Idx(cands) : cands[j].name \notin held}

\* C12: in every period and for every K the predicted set is the names of the
\* first K candidates of the scorer's ranking that are not held in the cutoff
\* report: min(K, number of non-held candidates) names, none held at the
\* cutoff, and no non-held candidate left out ranks above one included.
C12_TopKNonHeld ==
    \A i \in Idx(backtest_results) :
        \A cands \in {BacktestCandidates(reports, CutoffOf(i))} :
            LET held == HeldNames(reports[CutoffOf(i) + 1])
                free == NonHeld(cands, held)
            IN  \A k \in Range(config.top_k_values) :
                    LET predicted == backtest_results[i].metrics[k].predicted
                    IN  /\ Cardinality(predicted) = Min(k, Cardinality(free))
                        /\ predicted \cap held = {}
                        /\ predicted \subseteq {cands[j].name : j \in free}
                        /\ \A j1, j2 \in free :
                               (j1 < j2 /\ cands[j2].name \in predicted)
                                   => cands[j1].name \in predicted

\* C12 witness: a period whose scorer ranking starts with a held candidate,
\* and has more non-held candidates than the smallest K
C12_Witness ==
    /\ pc = "bt_done"
    /\ \E i \in Idx(backtest_results) :
           \E cands \in {BacktestCandidates(reports, CutoffOf(i))} :
               LET held == HeldNames(reports[CutoffOf(i) + 1])
               IN  /\ cands[1].name \in held
                   /\ \E k \in Range(config.top_k_values) :
                          /\ k < Cardinality(NonHeld(cands, held))
                          /\ Cardinality(backtest_results[i].metrics[k].predicted) = k

\* actual_new_entries as the claim defines it: held at c+1 and not at c
ActualNew(i) ==
    HeldNames(reports[CutoffOf(i) + 2]) \ HeldNames(reports[CutoffOf(i) + 1])

\* the part of C13 that does not depend on rounding
SetMetrics(i, k) ==
    LET m == backtest_results[i].metrics[k]
    IN  /\ backtest_results[i].actual_new_entries = ActualNew(i)
        /\ m.hits = m.predicted \cap ActualNew(i)
        /\ m.hit_count = Cardinality(m.hits)
        /\ m.hit_rate = (IF Cardinality(m.hits) > 0 THEN 1 ELSE 0)
        /\ m.precision >= 0 /\ m.precision <= 1000
        /\ m.recall >= 0 /\ m.recall <= 1000

\* C13 as claimed: precision is |hits| / K and recall is
\* |hits| / max(|actual_new_entries|, 1), exactly (values in thousandths).
C13_ExactMetrics ==
    \A i \in Idx(backtest_results) :
        \A k \in Range(config.top_k_values) :
            LET m == backtest_results[i].metrics[k]
            IN  /\ SetMetrics(i, k)
                /\ m.precision * k = Cardinality(m.hits) * 1000
                /\ m.recall * Max(Cardinality(ActualNew(i)), 1)
                       = Cardinality(m.hits) * 1000

\* C13 amended: actual_new_entries, hits, hit_count and hit_rate are as claimed,
\* and precision and recall are |hits| / K and |hits| / max(|actual|, 1) rounded
\* to 3 decimals (within half a thousandth of them), both in [0, 1].
C13_RoundedMetrics ==
    \A i \in Idx(backtest_results) :
        \A k \in Range(config.top_k_values) :
            LET m == backtest_results[i].metrics[k]
                actual == Max(Cardinality(ActualNew(i)), 1)
            IN  /\ SetMetrics(i, k)
                /\ 2 * Abs(m.precision * k - Cardinality(m.hits) * 1000) <= k
                /\ 2 * Abs(m.recall * actual - Cardinality(m.hits) * 1000) <= actual

\* C13 witness: a period with one hit among three predicted names, precision
\* 0.333, and a period with two new entries of which one is hit, recall 0.5
C13_Witness ==
    /\ pc = "bt_done"
    /\ \E i \in Idx(backtest_results) :
           /\ 3 \in Range(config.top_k_values)
           /\ backtest_results[i].metrics[3].hit_count = 1
           /\ backtest_results[i].metrics[3].precision = 333
    /\ \E i \in Idx(backtest_results) :
           \E k \in Range(config.top_k_values) :
               /\ Cardinality(ActualNew(i)) = 2
               /\ backtest_results[i].metrics[k].recall = 500

\* the entries of an explanations trail with a given name and type
EntriesOf(expl, name, type) ==
    {j \in Idx(expl) : expl[j].name = name /\ expl[j].type = type}

\* C14: in every backtest period each of the top-max(K) predicted candidates
\* has one hit entry iff it is an actual new entry, one continuation entry iff
\* it is not but is held in the target report, and no entry otherwise; the
\* trail names no other stock, and its hit names are the hits of top_max(K).
C14_ExplanationTrail ==
    \A i \in Idx(backtest_results) :
        LET expl == backtest_results[i].explanations
            top == backtest_results[i].metrics[MaxK(config.top_k_values)]
            target == HeldNames(reports[CutoffOf(i) + 2])
        IN  /\ \A name \in top.predicted :
                   /\ Cardinality(EntriesOf(expl, name, "hit"))
                          = (IF name \in ActualNew(i) THEN 1 ELSE 0)
                   /\ Cardinality(EntriesOf(expl, name, "continuation"))
                          = (IF name \notin ActualNew(i) /\ name \in target
                             THEN 1 ELSE 0)
            /\ \A j \in Idx(expl) :
                   /\ expl[j].name \in top.predicted
                   /\ expl[j].type \in {"hit", "continuation"}
            /\ {expl[j].name : j \in {j \in Idx(expl) : expl[j].type = "hit"}} = top.hits

\* C14 witness: a period whose top-max(K) holds a hit and a name with no entry
C14_Witness ==
    /\ pc = "bt_done"
    /\ \E i \in Idx(backtest_results) :
           LET expl == backtest_results[i].explanations
               top == backtest_results[i].metrics[MaxK(config.top_k_values)]
           IN  /\ \E j \in Idx(expl) : expl[j].type = "hit"
               /\ \E name \in top.predicted :
                      \A j \in Idx(expl) : expl[j].name # name

---------------------------------------------------------------------------
(* Claims about the analysis functions *)

\* compute_theme_intensity, compute_theme_trend and detect_holding_changes
\* have returned for the corpus
Analyzed == pc = "analyzed"

\* C15: compute_theme_intensity gives one record per report, in input order;
\* each theme's score lies in [0, 100] and is 100 * count / total rounded to 2
\* decimals (within half a hundredth of it), and 0 when the counts sum to 0.
C15_IntensityRange ==
    Analyzed =>
        /\ Len(intensity_list) = Len(reports)
        /\ \A i \in Idx(reports) :
               LET kw_data == reports[i].theme_keywords
                   total == SumOver(kw_data, DOMAIN kw_data)
                   scores == intensity_list[i].scores
               IN  /\ intensity_list[i].month = reports[i].report_month
                   /\ DOMAIN scores = DOMAIN kw_data
                   /\ \A theme \in DOMAIN scores :
                          /\ scores[theme] >= 0 /\ scores[theme] <= 10000
                          /\ total = 0 => scores[theme] = 0
                          /\ total > 0 =>
                                 2 * Abs(scores[theme] * total
                                         - kw_data[theme] * 10000) <= total

\* C15 witness: a corpus with a report whose counts sum to 0, a report with no
\* theme, and a report with a score that had to be rounded (100 / 6 = 16.67)
C15_Witness ==
    /\ Analyzed
    /\ \E i \in Idx(reports) :
           /\ DOMAIN reports[i].theme_keywords # {}
           /\ \A theme \in DOMAIN reports[i].theme_keywords :
                  /\ reports[i].theme_keywords[theme] = 0
                  /\ intensity_list[i].scores[theme] = 0
    /\ \E i \in Idx(reports) : DOMAIN intensity_list[i].scores = {}
    /\ \E i \in Idx(reports) :
           \E theme \in DOMAIN intensity_list[i].scores :
               intensity_list[i].scores[theme] = 1667

\* the themes present in the first n intensity records
ThemesOfPrefix(n) == UNION {DOMAIN intensity_list[i].scores : i \in 1..n}

\* C16: compute_theme_trend never looks ahead: the moving average of point i
\* is the mean of the values of the months max(0, i - window + 1) .. i, a
\* missing theme counting as 0 (the point stores it rounded to 2 decimals), and for every
\* prefix length n and theme present in the first n records, the first n trend
\* points from the full series equal those from the first n records alone.
C16_NoLookAhead ==
    Analyzed =>
        \A n \in Idx(intensity_list) :
            \A prefix \in {compute_theme_trend(SubSeq(intensity_list, 1, n),
                                                trend_window)} :
                \A theme \in ThemesOfPrefix(n) :
                    /\ theme \in DOMAIN theme_trends
                    /\ theme \in DOMAIN prefix
                    /\ Len(prefix[theme]) = n
                    /\ Len(theme_trends[theme]) = Len(intensity_list)
                    /\ \A i \in 1..n : theme_trends[theme][i] = prefix[theme][i]
                    /\ LET start == Max(1, n - trend_window + 1)
                           sum == SumSeq([j \in 1..(n - start + 1) |->
                                             ScoreGet(intensity_list[start + j - 1],
                                                      theme)])
                           den == n - start + 1
                           values == [j \in Idx(intensity_list) |->
                                         ScoreGet(intensity_list[j], theme)]
                       IN  /\ MovingAverage(values, n, trend_window)
                                  = [num |-> sum, den |-> den]
                           /\ 2 * Abs(theme_trends[theme][n].ma * den - sum) <= den

\* C16 witness: a theme of the first n records whose value changes in month
\* n + 1, and a theme of the first n records that is missing in one of them
C16_Witness ==
    /\ Analyzed
    /\ \E n \in 1..(Len(intensity_list) - 1) :
           /\ \E theme \in ThemesOfPrefix(n) :
                  /\ ScoreGet(intensity_list[n + 1], theme)
                         # ScoreGet(intensity_list[n], theme)
                  /\ theme_trends[theme][n].ma # theme_trends[theme][n + 1].ma
           /\ \E theme \in ThemesOfPrefix(n) :
                  \E i \in 1..n : theme \notin DOMAIN intensity_list[i].scores

\* C17: the first point of every theme series has delta 0 and direction
\* stable, whatever the first value and the window size.
C17_FirstPointStable ==
    (Analyzed /\ Len(intensity_list) > 0) =>
        \A theme \in DOMAIN theme_trends :
            /\ Len(theme_trends[theme]) > 0
            /\ theme_trends[theme][1].delta = 0
            /\ theme_trends[theme][1].direction = "stable"

\* C17 witness: a series that starts at a value above the threshold, for a
\* window of 1 and for a wider one
C17_Witness ==
    /\ Analyzed
    /\ trend_window > 1
    /\ \E theme \in DOMAIN theme_trends :
           /\ Len(theme_trends[theme]) > 1
           /\ theme_trends[theme][1].value > 50
           /\ theme_trends[theme][2].direction # "stable"

\* the direction the claim derives from a point's own delta field
DirectionOfField(delta) ==
    IF delta > 50 THEN "up" ELSE IF delta < -50 THEN "down" ELSE "stable"

\* C18: in every trend point direction agrees with the point's own delta
\* field: up iff delta > 0.5, down iff delta < -0.5, stable otherwise
\* (delta exactly 0.5 or -0.5 included).
C18_DirectionOfDelta ==
    Analyzed =>
        \A theme \in DOMAIN theme_trends :
            \A i \in Idx(theme_trends[theme]) :
                theme_trends[theme][i].direction
                    = DirectionOfField(theme_trends[theme][i].delta)

\* a list names each element of a set once and nothing else
ListsExactly(list, S) == Range(list) = S /\ Len(list) = Cardinality(S)

\* C19: detect_holding_changes returns one record per report in order; the
\* first has new_entries = all its holdings and nothing else; for i > 0,
\* new_entries is exactly the names held at i and not at i - 1 and removed
\* exactly the names held at i - 1 and not at i, whatever was held before i - 1.
C19_EntriesAndRemovals ==
    Analyzed =>
        /\ Len(changes_list) = Len(reports)
        /\ \A i \in Idx(reports) :
               LET change == changes_list[i]
                   current == HeldNames(reports[i])
               IN  /\ change.month = reports[i].report_month
                   /\ i = 1 =>
                          /\ ListsExactly(change.new_entries, current)
                          /\ change.removed = <<>>
                          /\ change.rank_up = <<>>
                          /\ change.rank_down = <<>>
                   /\ i > 1 =>
                          LET previous == HeldNames(reports[i - 1])
                          IN  /\ ListsExactly(change.new_entries, current \ previous)
                              /\ ListsExactly(change.removed, previous \ current)

\* C19 witness: holdings {A, B, C} followed by {A, B, D} give new_entries [D]
\* and removed [C], and a name held two months before, dropped, and held
\* again is a new entry
C19_Witness ==
    /\ Analyzed
    /\ \E i \in 2..Len(reports) :
           /\ HeldNames(reports[i - 1]) = {<<1>>, <<2>>, <<3>>}
           /\ HeldNames(reports[i]) = {<<1>>, <<2>>, <<4>>}
           /\ changes_list[i].new_entries = << <<4>> >>
           /\ changes_list[i].removed = << <<3>> >>
    /\ \E i \in 3..Len(reports) :
           \E name \in HeldNames(reports[i - 2]) \ HeldNames(reports[i - 1]) :
               name \in Range(changes_list[i].new_entries)
    /\ \E name \in HeldNames(reports[1]) :
           name \in Range(changes_list[1].new_entries)

\* previousRank - currentRank of a name held in reports i - 1 and i
RankDelta(i, name) == RankOf(reports[i - 1], name) - RankOf(reports[i], name)

\* the entries of a rank_up or rank_down list for a name
MovesOf(moves, name) == {j \in Idx(moves) : moves[j].name = name}

\* the names of a rank_up or rank_down list
MovedNames(moves) == {moves[j].name : j \in Idx(moves)}

\* C20: in every record for i > 0, a name held at i - 1 and i has, by
\* delta = previousRank - currentRank, one rank_up entry with change = delta
\* when delta > 0, one rank_down entry with change = delta when delta < 0, and
\* no entry when delta = 0; new entries, rank_up names, rank_down names and
\* unchanged names partition the current holdings.
C20_RankMoves ==
    Analyzed =>
        \A i \in 2..Len(reports) :
            LET change == changes_list[i]
                current == HeldNames(reports[i])
                both == current \cap HeldNames(reports[i - 1])
                up == MovedNames(change.rank_up)
                down == MovedNames(change.rank_down)
                unchanged == {name \in both : RankDelta(i, name) = 0}
                fresh == Range(change.new_entries)
            IN  /\ \A name \in both :
                       LET delta == RankDelta(i, name)
                           ups == MovesOf(change.rank_up, name)
                           downs == MovesOf(change.rank_down, name)
                       IN  /\ Cardinality(ups) = (IF delta > 0 THEN 1 ELSE 0)
                           /\ Cardinality(downs) = (IF delta < 0 THEN 1 ELSE 0)
                           /\ \A j \in ups : change.rank_up[j].change = delta
                           /\ \A j \in downs : change.rank_down[j].change = delta
                /\ up \subseteq both /\ down \subseteq both
                /\ Len(change.rank_up) = Cardinality(up)
                /\ Len(change.rank_down) = Cardinality(down)
                /\ up \cap down = {}
                /\ fresh \cap both = {}
                /\ fresh \cup up \cup down \cup unchanged = current

\* C20 witness: a record with a rank_up entry, a rank_down entry and a name of
\* unchanged rank, and a record with a new entry beside names of unchanged rank
C20_Witness ==
    /\ Analyzed
    /\ \E i \in 2..Len(reports) :
           /\ \E j \in Idx(changes_list[i].rank_up) :
                  changes_list[i].rank_up[j].change > 0
           /\ \E j \in Idx(changes_list[i].rank_down) :
                  changes_list[i].rank_down[j].change < 0
           /\ \E name \in HeldNames(reports[i]) \cap HeldNames(reports[i - 1]) :
                  RankDelta(i, name) = 0
    /\ \E i \in 2..Len(reports) :
           /\ changes_list[i].new_entries # <<>>
           /\ \E name \in HeldNames(reports[i]) \cap HeldNames(reports[i - 1]) :
                  RankDelta(i, name) = 0

---------------------------------------------------------------------------
(* Claims about error handling and the remaining factors *)

\* C21: no core function raises on a report with missing fields (a named
\* holding with no rank included): every call returns a result.
C21_NeverRaises == pc # "raised"

\* analyze_holdings_history has returned for the corpus
HistoryAnalyzed == pc \in {"analyzed", "raised"}

\* the length of the longest run of reports, ending at report n and scanning
\* backward, in each of which the stock is held
RECURSIVE TrailingRun(_, _)
TrailingRun(n, name) ==
    IF n = 0 \/ name \notin HeldNames(reports[n]) THEN 0
    ELSE 1 + TrailingRun(n - 1, name)

\* C22: for every stock of analyze_holdings_history, consecutive_months is the
\* length of the longest run of reports, ending at the last report and
\* scanning backward, in each of which the stock is held: 0 when it is absent
\* from the last report, and stopped by an earlier gap.
C22_ConsecutiveMonths ==
    HistoryAnalyzed =>
        \A name \in DOMAIN holdings_analysis :
            holdings_analysis[name].consecutive_months
                = TrailingRun(Len(reports), name)

\* the report months of the corpus are strictly ascending
AscendingMonths ==
    \A i \in 1..(Len(reports) - 1) :
        reports[i].report_month < reports[i + 1].report_month

\* C22 on the corpora whose report months are strictly ascending
C22_ConsecutiveMonthsDated ==
    (HistoryAnalyzed /\ AscendingMonths) => C22_ConsecutiveMonths

\* the reference sector tags CANDIDATE_UNIVERSE lists for a name
TagsOf(name) ==
    {config.candidate_universe[i].sector :
        i \in {j \in Idx(config.candidate_universe) :
                  config.candidate_universe[j].name = name}}

\* the keywords of a THEME_KEYWORDS entry that occur in the name or in a tag
MatchingKeywords(e, name) ==
    {k \in Idx(e.keywords) :
        \/ Contains(e.keywords[k], name)
        \/ \E tag \in TagsOf(name) : Contains(e.keywords[k], tag)}

\* the themes whose keyword list matches the name or one of its tags
MatchingThemes(name) ==
    {config.theme_keywords[i].theme :
        i \in {j \in Idx(config.theme_keywords) :
                  MatchingKeywords(config.theme_keywords[j], name) # {}}}

\* the value of a theme at the cutoff month in the theme_trends given to the
\* call, in hundredths; 0 when the table has no point for it
ValueAtCutoff(theme) ==
    LET month == reports[cutoff_idx + 1].report_month
        points == IF theme \in DOMAIN theme_trends
                  THEN {i \in Idx(theme_trends[theme]) :
                           theme_trends[theme][i].month = month}
                  ELSE {}
    IN  IF points = {} THEN 0
        ELSE theme_trends[theme][CHOOSE i \in points : \A j \in points : i <= j].value

\* min(1, sum of value / 100 over the matching themes), in 1/10000
ThemeSum(name) ==
    Min(10000, SumOver([theme \in MatchingThemes(name) |-> ValueAtCutoff(theme)],
                       MatchingThemes(name)))

\* C23 as claimed: theme_match equals min(1, sum over the matching themes of
\* the theme's value at the cutoff month / 100), each theme counted once.
C23_ThemeMatchExact ==
    (Estimated /\ InRange) =>
        \A i \in Idx(candidates) :
            candidates[i].score_breakdown["theme_match"] * 10
                = ThemeSum(candidates[i].name)

\* C23 amended: theme_match is that sum, each matching theme counted once and
\* clamped at 1, rounded to 3 decimals (within half a thousandth of it).
C23_ThemeMatchRounded ==
    (Estimated /\ InRange) =>
        \A i \in Idx(candidates) :
            2 * Abs(candidates[i].score_breakdown["theme_match"] * 10
                    - ThemeSum(candidates[i].name)) <= 10

\* C23 witness: a candidate matching themes of which one has a value, 25, at
\* the cutoff month, with theme_match 0.25, and a candidate matched by two
\* keywords of one theme whose value is counted once
C23_Witness ==
    /\ Estimated /\ InRange
    /\ \E i \in Idx(candidates) :
           /\ {t \in MatchingThemes(candidates[i].name) : ValueAtCutoff(t) > 0}
                  = {"dc"}
           /\ ValueAtCutoff("dc") = 2500
           /\ candidates[i].score_breakdown["theme_match"] = 250
    /\ \E i \in Idx(candidates) :
           \E j \in Idx(config.theme_keywords) :
               /\ Cardinality(MatchingKeywords(config.theme_keywords[j],
                                               candidates[i].name)) > 1
               /\ ValueAtCutoff(config.theme_keywords[j].theme) = 7500
               /\ candidates[i].score_breakdown["theme_match"] = 750

\* the number of holdings of a report in a sector
HoldingsInSector(report, tag) ==
    Cardinality({i \in Idx(report.holdings) : report.holdings[i].sector = tag})

\* the sector_trend the claim gives a candidate at the cutoff, in thousandths
ClaimedSectorTrend(name) ==
    IF cutoff_idx < 1 THEN 0
    ELSE LET curr == reports[cutoff_idx + 1]
             prev == reports[cutoff_idx]
         IN  IF \E tag \in TagsOf(name) :
                    HoldingsInSector(curr, tag) > HoldingsInSector(prev, tag)
             THEN 700
             ELSE IF \E tag \in TagsOf(name) :
                         /\ HoldingsInSector(curr, tag) = HoldingsInSector(prev, tag)
                         /\ HoldingsInSector(curr, tag) > 0
             THEN 400
             ELSE 0

\* C24: for every candidate, one with several reference sector tags included,
\* sector_trend is 0.7 if one of its sectors has more holdings in the cutoff
\* report than in the report before, otherwise 0.4 if one has as many and not
\* zero, and 0 otherwise; it is 0 when the train prefix has fewer than 2 reports.
C24_SectorTrend ==
    (Estimated /\ InRange) =>
        \A i \in Idx(candidates) :
            candidates[i].score_breakdown["sector_trend"]
                = ClaimedSectorTrend(candidates[i].name)

\* C25: no explanations trail has a continuation entry: a predicted candidate
\* is not held at the cutoff, so one that is held in the target report is an
\* actual new entry and is classified hit; every trail entry has type hit.
C25_NoContinuation ==
    \A i \in Idx(backtest_results) :
        LET expl == backtest_results[i].explanations
            top == backtest_results[i].metrics[MaxK(config.top_k_values)]
            target == HeldNames(reports[CutoffOf(i) + 2])
        IN  /\ \A j \in Idx(expl) : expl[j].type = "hit"
            /\ \A name \in top.predicted \cap target :
                   /\ name \notin HeldNames(reports[CutoffOf(i) + 1])
                   /\ name \in backtest_results[i].actual_new_entries
                   /\ \E j \in Idx(expl) : expl[j].name = name

\* C25 witness: a period in which a predicted candidate is held in the target
\* report, beside a stock held at the cutoff and in the target report
C25_Witness ==
    /\ pc = "bt_done"
    /\ \E i \in Idx(backtest_results) :
           /\ backtest_results[i].metrics[MaxK(config.top_k_values)].predicted
                  \cap HeldNames(reports[CutoffOf(i) + 2]) # {}
           /\ HeldNames(reports[CutoffOf(i) + 1])
                  \cap HeldNames(reports[CutoffOf(i) + 2]) # {}
           /\ backtest_results[i].explanations # <<>>

\* C26: whenever run_backtest does not return the insufficient-data result
\* it evaluates at least one cutoff: the results list is non-empty and every
\* summary entry has total_periods >= 1.
C26_AtLeastOnePeriod ==
    Backtested =>
        /\ backtest.results # <<>>
        /\ \A k \in Range(config.top_k_values) :
               backtest.summary[k].total_periods >= 1

\* C27: the placeholder is emitted only when nothing fired: a candidate whose
\* explanations are the single placeholder has all six factor scores equal to
\* 0 and total_score 0.
C27_PlaceholderOnlyAllZero ==
    (Estimated /\ InRange) =>
        \A i \in Idx(candidates) :
            candidates[i].explanations = <<Placeholder>> =>
                /\ \A key \in Factors : candidates[i].score_breakdown[key] = 0
                /\ candidates[i].total_score = 0

\* C27 amended: a candidate whose explanations are the single placeholder has
\* theme_match 0 and past_frequency 0, description_sim at most 0.3,
\* sector_trend at most 0.4, signal_match at most 0.5 and cycle_tendency at
\* most 0.4; these four may be positive, and total_score with them.
C27_PlaceholderBelowThresholds ==
    (Estimated /\ InRange) =>
        \A i \in Idx(candidates) :
            candidates[i].explanations = <<Placeholder>> =>
                /\ candidates[i].score_breakdown["theme_match"] = 0
                /\ candidates[i].score_breakdown["past_frequency"] = 0
                /\ candidates[i].score_breakdown["description_sim"] <= 300
                /\ candidates[i].score_breakdown["sector_trend"] <= 400
                /\ candidates[i].score_breakdown["signal_match"] <= 500
                /\ candidates[i].score_breakdown["cycle_tendency"] <= 400

\* C27 witness: a placeholder-only candidate with a positive signal_match and
\* a positive total_score
C27_Witness ==
    /\ Estimated /\ InRange
    /\ \E i \in Idx(candidates) :
           /\ candidates[i].explanations = <<Placeholder>>
           /\ candidates[i].score_breakdown["signal_match"] > 0
           /\ candidates[i].total_score > 0

\* C28: on a corpus with strictly ascending report months every entry of
\* analyze_holdings_history has 0 <= consecutive_months <= total_appearances
\* <= number of reports, and appearance_rate <= 100 (tenths of a percent here).
C28_HistoryBounds ==
    (HistoryAnalyzed /\ AscendingMonths) =>
        \A name \in DOMAIN holdings_analysis :
            \A ha \in {holdings_analysis[name]} :
                /\ 0 <= ha.consecutive_months
                /\ ha.consecutive_months <= ha.total_appearances
                /\ ha.total_appearances <= Len(reports)
                /\ ha.appearance_rate <= 1000

\* no report lists a name in two of its holdings
DistinctHoldings ==
    \A r \in Idx(reports) :
        \A i, j \in Idx(reports[r].holdings) :
            (i # j /\ reports[r].holdings[i].name # <<>>)
                => reports[r].holdings[i].name # reports[r].holdings[j].name

\* C28 on the corpora where no report lists a name twice
C28_HistoryBoundsDistinct ==
    DistinctHoldings => C28_HistoryBounds

=============================================================================
